---- MODULE Spec2Model ----
(***************************************************************************)
(* Model of the rule-driven simulation core of baba/grid.py and            *)
(* baba/rule.py: the Grid (cells, rule tables, won/lost/steps), the        *)
(* RuleExtractor, the RuleManager and one Grid.step as a single action.    *)
(*                                                                         *)
(* A cell is a Python set of Object instances.  Object.__hash__ and        *)
(* Object.__eq__ (world_object.py 61-70) compare type_id only, so a cell   *)
(* holds at most one instance per registered type: a cell is modelled as   *)
(* the set of the type names it holds.  The iteration order of a Python    *)
(* set is not fixed by the code, so every loop over a cell whose result    *)
(* depends on the order is a choice over all orders.                       *)
(***************************************************************************)
EXTENDS Integers, Sequences, FiniteSets, TLC

\* ------------------------------------------------------------------ bounds
W == 4
H == 4
MaxSteps == 2
\* the direct calls made on a Grid outside the game loop
MaxCalls == 2

\* ---------------------------------------------------------- registry types
None == "None"

ObjectNames == {"baba", "rock", "flag"}
NounTexts == {"baba_text", "rock_text", "flag_text"}
PropertyTexts == {"you_text", "win_text", "stop_text", "push_text", "sink_text"}
TextNames == NounTexts \cup PropertyTexts \cup {"is_text"}
Types == ObjectNames \cup TextNames

Property == {"YOU", "WIN", "STOP", "PUSH", "SINK"}

is_text(t) == t \in TextNames

noun(t) ==
    CASE t = "baba_text" -> "baba"
      [] t = "rock_text" -> "rock"
      [] t = "flag_text" -> "flag"
      [] OTHER -> None

verb(t) == IF t = "is_text" THEN "is" ELSE None

property(t) ==
    CASE t = "you_text" -> "YOU"
      [] t = "win_text" -> "WIN"
      [] t = "stop_text" -> "STOP"
      [] t = "push_text" -> "PUSH"
      [] t = "sink_text" -> "SINK"
      [] OTHER -> None

upper(s) ==
    CASE s = "baba" -> "BABA"
      [] s = "rock" -> "ROCK"
      [] s = "flag" -> "FLAG"
      [] s = "baba_text" -> "BABA_TEXT"
      [] s = "rock_text" -> "ROCK_TEXT"
      [] s = "flag_text" -> "FLAG_TEXT"
      [] s = "is_text" -> "IS_TEXT"
      [] s = "you_text" -> "YOU_TEXT"
      [] s = "win_text" -> "WIN_TEXT"
      [] s = "stop_text" -> "STOP_TEXT"
      [] s = "push_text" -> "PUSH_TEXT"
      [] s = "sink_text" -> "SINK_TEXT"
      [] OTHER -> s

lower(s) ==
    CASE s = "BABA" -> "baba"
      [] s = "ROCK" -> "rock"
      [] s = "FLAG" -> "flag"
      [] OTHER -> s

get_object(name) == IF lower(name) \in ObjectNames THEN lower(name) ELSE None

\* -------------------------------------------------------------- cell store
Pos == (0 .. W - 1) \X (0 .. H - 1)

InBounds(x, y) == 0 <= x /\ x < W /\ 0 <= y /\ y < H

EmptyGrid == [p \in Pos |-> {}]

place_object(g, obj, x, y) ==
    IF InBounds(x, y) THEN [g EXCEPT ![<<x, y>>] = @ \cup {obj}] ELSE g

remove_object(g, obj, x, y) ==
    IF InBounds(x, y) THEN [g EXCEPT ![<<x, y>>] = @ \ {obj}] ELSE g

get_objects_at(g, x, y) == IF InBounds(x, y) THEN g[<<x, y>>] ELSE {}

\* the object is taken out of its source cell before the target is tested
move_object_removes_first(g, obj, from_x, from_y, to_x, to_y) ==
    IF ~InBounds(to_x, to_y)
    THEN [grid |-> remove_object(g, obj, from_x, from_y), ok |-> FALSE]
    ELSE [grid |-> place_object(remove_object(g, obj, from_x, from_y), obj, to_x, to_y),
          ok |-> TRUE]

move_object(g, obj, from_x, from_y, to_x, to_y) ==
    IF ~InBounds(to_x, to_y)
    THEN [grid |-> g, ok |-> FALSE]
    ELSE [grid |-> place_object(remove_object(g, obj, from_x, from_y), obj, to_x, to_y),
          ok |-> TRUE]

\* cell number i of the row-major scan (y outer, x inner)
PosOf(i) == <<i % W, i \div W>>

\* the results list of find_objects(name=...): one entry per cell that holds
\* an instance of that name, in scan order
find_objects(g, name) ==
    LET wanted == upper(name)
        scan == [i \in 1 .. W * H |->
                   LET p == PosOf(i - 1)
                       hit == {o \in g[p] : upper(o) = wanted}
                   IN  IF hit = {} THEN <<>> ELSE <<CHOOSE o \in hit : TRUE, p[1], p[2]>>]
        found(e) == e # <<>>
    IN  SelectSeq(scan, found)

\* ----------------------------------------------------------- RuleExtractor
Rule(subject, v, complement) == <<subject, v, complement>>

TextsAt(g, p) == {o \in g[p] : is_text(o)}

\* cells in which the pick of "the" text instance depends on the set order
StackedText(g) == {p \in Pos : Cardinality(TextsAt(g, p)) > 1}

TextPicks(g) ==
    LET stacked == StackedText(g)
    IN  {f \in [stacked -> TextNames] : \A p \in stacked : f[p] \in TextsAt(g, p)}

get_text_object(g, pick, p) ==
    LET texts == TextsAt(g, p)
    IN  IF p \in DOMAIN pick THEN pick[p]
        ELSE IF texts = {} THEN None
        ELSE CHOOSE o \in texts : TRUE

\* the middle word is not tested: any text instance between a noun and a
\* complement makes a rule
check_rule_at_any_verb(text, x, y, dx, dy) ==
    LET text1 == text[<<x, y>>]
        text2 == text[<<x + dx, y + dy>>]
        text3 == text[<<x + 2 * dx, y + 2 * dy>>]
    IN  IF text1 = None \/ text2 = None \/ text3 = None THEN None
        ELSE IF noun(text1) = None THEN None
        ELSE IF property(text3) # None THEN Rule(upper(noun(text1)), "IS", property(text3))
        ELSE IF noun(text3) # None THEN Rule(upper(noun(text1)), "IS", upper(noun(text3)))
        ELSE None

\* text[p] is what _get_text_object returns for cell p during this scan
check_rule_at(text, x, y, dx, dy) ==
    LET text1 == text[<<x, y>>]
        text2 == text[<<x + dx, y + dy>>]
        text3 == text[<<x + 2 * dx, y + 2 * dy>>]
    IN  IF text1 = None \/ text2 = None \/ text3 = None THEN None
        ELSE IF noun(text1) = None THEN None
        ELSE IF verb(text2) # "is" THEN None
        ELSE IF property(text3) # None THEN Rule(upper(noun(text1)), "IS", property(text3))
        ELSE IF noun(text3) # None THEN Rule(upper(noun(text1)), "IS", upper(noun(text3)))
        ELSE None

\* the vertical pass is put before the horizontal one
extract_rules_vertical_first(g, pick) ==
    LET text == [p \in Pos |-> get_text_object(g, pick, p)]
        horizontal == [i \in 1 .. W * H |->
                         LET p == PosOf(i - 1)
                         IN  IF p[1] < W - 2 THEN check_rule_at(text, p[1], p[2], 1, 0)
                             ELSE None]
        vertical == [i \in 1 .. W * H |->
                       LET p == PosOf(i - 1)
                       IN  IF p[2] < H - 2 THEN check_rule_at(text, p[1], p[2], 0, 1)
                           ELSE None]
        found(rule) == rule # None
    IN  SelectSeq(vertical, found) \o SelectSeq(horizontal, found)

extract_rules(g, pick) ==
    LET text == [p \in Pos |-> get_text_object(g, pick, p)]
        horizontal == [i \in 1 .. W * H |->
                         LET p == PosOf(i - 1)
                         IN  IF p[1] < W - 2 THEN check_rule_at(text, p[1], p[2], 1, 0)
                             ELSE None]
        vertical == [i \in 1 .. W * H |->
                       LET p == PosOf(i - 1)
                       IN  IF p[2] < H - 2 THEN check_rule_at(text, p[1], p[2], 0, 1)
                           ELSE None]
        found(rule) == rule # None
    IN  SelectSeq(horizontal, found) \o SelectSeq(vertical, found)

\* ------------------------------------------------------------- RuleManager
\* the properties dict keeps its keys in insertion order: a sequence of
\* [name, props] entries, one per subject
RECURSIVE compute_properties(_)
compute_properties(rs) ==
    IF rs = <<>> THEN <<>>
    ELSE LET before == compute_properties(SubSeq(rs, 1, Len(rs) - 1))
             rule == rs[Len(rs)]
             at == {i \in 1 .. Len(before) : before[i].name = rule[1]}
         IN  IF rule[2] = "IS" /\ rule[3] \in Property
             THEN IF at = {}
                  THEN Append(before, [name |-> rule[1], props |-> {rule[3]}])
                  ELSE [before EXCEPT ![CHOOSE i \in at : TRUE].props = @ \cup {rule[3]}]
             ELSE before

\* the first transformation rule of a subject is kept, later ones are dropped
RECURSIVE compute_transformations_first_wins(_)
compute_transformations_first_wins(rs) ==
    IF rs = <<>> THEN {}
    ELSE LET before == compute_transformations_first_wins(SubSeq(rs, 1, Len(rs) - 1))
             rule == rs[Len(rs)]
         IN  IF rule[2] = "IS" /\ rule[3] \notin Property
                /\ \A e \in before : e[1] # rule[1]
             THEN before \cup {<<rule[1], rule[3]>>}
             ELSE before

\* the transformations dict as the set of its (key, value) entries
RECURSIVE compute_transformations(_)
compute_transformations(rs) ==
    IF rs = <<>> THEN {}
    ELSE LET before == compute_transformations(SubSeq(rs, 1, Len(rs) - 1))
             rule == rs[Len(rs)]
         IN  IF rule[2] = "IS" /\ rule[3] \notin Property
             THEN {e \in before : e[1] # rule[1]} \cup {<<rule[1], rule[3]>>}
             ELSE before

get_properties(props, object_name) ==
    LET at == {i \in 1 .. Len(props) : props[i].name = upper(object_name)}
    IN  IF at = {} THEN {} ELSE props[CHOOSE i \in at : TRUE].props

get_transformation(trans, object_name) ==
    LET at == {e \in trans : e[1] = upper(object_name)}
    IN  IF at = {} THEN None ELSE (CHOOSE e \in at : TRUE)[2]

has_property(props, object_name, prop) == prop \in get_properties(props, object_name)

NamesWith(props, prop) ==
    LET keep(e) == prop \in e.props
        sel == SelectSeq(props, keep)
    IN  [i \in 1 .. Len(sel) |-> sel[i].name]

get_you_objects(props) == NamesWith(props, "YOU")
get_win_objects(props) == NamesWith(props, "WIN")
get_sink_objects(props) == NamesWith(props, "SINK")

Range(s) == {s[i] : i \in 1 .. Len(s)}

\* --------------------------------------------------------- Grid._try_move
\* One outcome: the grid it leaves, the value returned, and the move_object
\* calls it made (obj, from, to, and what the target cell held at the call).
\* depth: how many calls of _try_move were nested below the call at most
Outcome(g, ok, log, depth) == [grid |-> g, ok |-> ok, log |-> log, depth |-> depth]

Max(a, b) == IF a >= b THEN a ELSE b

RECURSIVE try_move(_, _, _, _, _, _, _)
RECURSIVE push_each(_, _, _, _, _, _, _)

\* the loop "for push_obj in push_objects", in every order of the snapshot
push_each(g, props, rest, to_x, to_y, push_to_x, push_to_y) ==
    IF rest = {} THEN {Outcome(g, TRUE, <<>>, 0)}
    ELSE UNION {
           UNION {
             IF r.ok
             THEN {Outcome(r2.grid, r2.ok, r.log \o r2.log, Max(1 + r.depth, r2.depth)) :
                     r2 \in push_each(r.grid, props, rest \ {o}, to_x, to_y, push_to_x, push_to_y)}
             ELSE {Outcome(r.grid, FALSE, r.log, 1 + r.depth)}
             : r \in try_move(g, props, o, to_x, to_y, push_to_x, push_to_y)}
           : o \in rest}

\* an instance that also holds PUSH does not block
StopAtTarget_unless_push(props, target_objects) ==
    \E target_obj \in target_objects :
      has_property(props, target_obj, "STOP") /\ ~has_property(props, target_obj, "PUSH")

StopAtTarget(props, target_objects) ==
    \E target_obj \in target_objects : has_property(props, target_obj, "STOP")

\* only text is pushed, the PUSH property is not looked at
PushObjects_text_only(props, target_objects) ==
    {target_obj \in target_objects : is_text(target_obj)}

PushObjects(props, target_objects) ==
    {target_obj \in target_objects :
        has_property(props, target_obj, "PUSH") \/ is_text(target_obj)}

try_move(g, props, obj, from_x, from_y, to_x, to_y) ==
    IF ~InBounds(to_x, to_y) THEN {Outcome(g, FALSE, <<>>, 0)}
    ELSE LET target_objects == get_objects_at(g, to_x, to_y)
         IN  IF StopAtTarget(props, target_objects) THEN {Outcome(g, FALSE, <<>>, 0)}
             ELSE LET push_objects == PushObjects(props, target_objects)
                      dx == to_x - from_x
                      dy == to_y - from_y
                  IN  {IF r.ok
                       THEN Outcome(move_object(r.grid, obj, from_x, from_y, to_x, to_y).grid,
                                    TRUE,
                                    Append(r.log, [obj |-> obj,
                                                   from |-> <<from_x, from_y>>,
                                                   to |-> <<to_x, to_y>>,
                                                   at |-> r.grid[<<to_x, to_y>>]]),
                                    r.depth)
                       ELSE r
                       : r \in push_each(g, props, push_objects, to_x, to_y,
                                         to_x + dx, to_y + dy)}

\* ------------------------------------------------- Grid.step, move phase
\* an unknown action string falls into the last branch
Direction_unknown_moves(action) ==
    CASE action = "up" -> <<0, -1>>
      [] action = "down" -> <<0, 1>>
      [] action = "left" -> <<-1, 0>>
      [] action = "wait" -> <<0, 0>>
      [] OTHER -> <<1, 0>>

Direction(action) ==
    CASE action = "up" -> <<0, -1>>
      [] action = "down" -> <<0, 1>>
      [] action = "left" -> <<-1, 0>>
      [] action = "right" -> <<1, 0>>
      [] OTHER -> <<0, 0>>

Moved(g, attempts) == [grid |-> g, attempts |-> attempts]

\* the inner loop over the find_objects snapshot of one YOU name
RECURSIVE move_each(_, _, _, _, _)
move_each(g, props, found, dx, dy) ==
    IF found = <<>> THEN {Moved(g, <<>>)}
    ELSE LET obj == Head(found)[1]
             x == Head(found)[2]
             y == Head(found)[3]
         IN  UNION {
               {Moved(m.grid,
                      <<[obj |-> obj, from |-> <<x, y>>, to |-> <<x + dx, y + dy>>,
                         before |-> g, after |-> r.grid, ok |-> r.ok, log |-> r.log,
                         depth |-> r.depth]>>
                      \o m.attempts)
                  : m \in move_each(r.grid, props, Tail(found), dx, dy)}
               : r \in try_move(g, props, obj, x, y, x + dx, y + dy)}

\* the outer loop over get_you_objects()
RECURSIVE move_names(_, _, _, _, _)
move_names(g, props, names, dx, dy) ==
    IF names = <<>> THEN {Moved(g, <<>>)}
    ELSE UNION {
           {Moved(m2.grid, m1.attempts \o m2.attempts)
              : m2 \in move_names(m1.grid, props, Tail(names), dx, dy)}
           : m1 \in move_each(g, props, find_objects(g, Head(names)), dx, dy)}

move_phase(g, props, action) ==
    LET d == Direction(action)
    IN  IF d[1] # 0 \/ d[2] # 0
        THEN move_names(g, props, get_you_objects(props), d[1], d[2])
        ELSE {Moved(g, <<>>)}

\* ------------------------------------------- Grid._apply_transformations
TransformTarget(trans, obj) ==
    LET transform_to == get_transformation(trans, obj)
    IN  IF transform_to = None THEN None ELSE get_object(transform_to)

\* remove_object/place_object of the collected entries of one cell, in
\* every order in which the cell can have been listed
RECURSIVE apply_in_cell(_, _, _)
apply_in_cell(cell, todo, trans) ==
    IF todo = {} THEN {cell}
    ELSE UNION {apply_in_cell((cell \ {obj}) \cup {TransformTarget(trans, obj)},
                              todo \ {obj}, trans)
                  : obj \in todo}

transform_cell(cell, trans) ==
    apply_in_cell(cell, {obj \in cell : TransformTarget(trans, obj) # None}, trans)

\* cells are independent: the grids that differ only in the cells whose
\* outcome depends on the order
RECURSIVE transform_rest(_, _, _)
transform_rest(g, cells, outcomes) ==
    IF cells = {} THEN {g}
    ELSE LET p == CHOOSE p \in cells : TRUE
         IN  UNION {transform_rest([g EXCEPT ![p] = c], cells \ {p}, outcomes)
                      : c \in outcomes[p]}

apply_transformations(g, trans) ==
    LET outcomes == [p \in Pos |-> transform_cell(g[p], trans)]
        open == {p \in Pos : Cardinality(outcomes[p]) > 1}
        settled == [p \in Pos |-> IF p \in open THEN g[p]
                                  ELSE CHOOSE c \in outcomes[p] : TRUE]
    IN  transform_rest(settled, open, outcomes)

\* ------------------------------------------------- Grid._check_win_lose
\* other_obj.name compared without upper()
YouOnWin_case(g, props) ==
    \E you_name \in Range(get_you_objects(props)) :
      \E f \in Range(find_objects(g, you_name)) :
        \E other_obj \in get_objects_at(g, f[2], f[3]) :
          other_obj # f[1] /\ other_obj \in Range(get_win_objects(props))

\* compares the YOU instance with itself too
YouOnWin_self(g, props) ==
    \E you_name \in Range(get_you_objects(props)) :
      \E f \in Range(find_objects(g, you_name)) :
        \E other_obj \in get_objects_at(g, f[2], f[3]) :
          upper(other_obj) \in Range(get_win_objects(props))

YouOnWin(g, props) ==
    \E you_name \in Range(get_you_objects(props)) :
      \E f \in Range(find_objects(g, you_name)) :
        \E other_obj \in get_objects_at(g, f[2], f[3]) :
          other_obj # f[1] /\ upper(other_obj) \in Range(get_win_objects(props))

\* returns early when no subject holds WIN
check_win_lose_needs_win(g, props, w, l) ==
    IF get_win_objects(props) = <<>> THEN [won |-> w, lost |-> l]
    ELSE IF get_you_objects(props) = <<>> THEN [won |-> w, lost |-> TRUE]
    ELSE IF YouOnWin(g, props) THEN [won |-> TRUE, lost |-> l]
    ELSE [won |-> w, lost |-> l]

\* assigns both flags on every check
check_win_lose_fresh(g, props, w, l) ==
    [won |-> get_you_objects(props) # <<>> /\ YouOnWin(g, props),
     lost |-> get_you_objects(props) = <<>>]

\* keeps checking the cells after setting lost, for any instance on a WIN one
check_win_lose_no_return(g, props, w, l) ==
    [won |-> w \/ \E p \in Pos : \E o, q \in g[p] :
                    o # q /\ upper(q) \in Range(get_win_objects(props)),
     lost |-> l \/ get_you_objects(props) = <<>>]

check_win_lose(g, props, w, l) ==
    IF get_you_objects(props) = <<>> THEN [won |-> w, lost |-> TRUE]
    ELSE IF YouOnWin(g, props) THEN [won |-> TRUE, lost |-> l]
    ELSE [won |-> w, lost |-> l]

\* -------------------------------------------------- Grid._handle_sinking
sink_positions(g, props) ==
    {<<f[2], f[3]>> : f \in UNION {Range(find_objects(g, sink_name)) :
                                      sink_name \in Range(get_sink_objects(props))}}

\* removes the SINK instances only, not what is stacked with them
handle_sinking_sink_only(g, props) ==
    [p \in Pos |-> {o \in g[p] : ~has_property(props, o, "SINK")}]

handle_sinking(g, props) ==
    LET cleared == sink_positions(g, props)
    IN  [p \in Pos |-> IF p \in cleared THEN {} ELSE g[p]]

\* ------------------------------------------------------------------ state
\* grid, rule_manager, won, lost, steps: the fields of one Grid; twin: a
\* second Grid made by copy() (None before); calls: the direct calls made on
\* the cell store so far; last: what the last operation did
VARIABLES grid, rule_manager, won, lost, steps, last, twin, calls

vars == <<grid, rule_manager, won, lost, steps, last, twin, calls>>

update_rules(rs) ==
    [rules |-> rs,
     properties |-> compute_properties(rs),
     transformations |-> compute_transformations(rs)]

NoStep == [op |-> "none", action |-> None, grid0 |-> EmptyGrid, props0 |-> <<>>,
           won0 |-> FALSE, lost0 |-> FALSE, steps0 |-> 0, attempts |-> <<>>,
           moved |-> EmptyGrid, transformed |-> EmptyGrid]

\* no second Grid yet
NoTwin == [cells |-> None, grid |-> EmptyGrid, won |-> FALSE, lost |-> FALSE,
           steps |-> 0, rule_manager |-> update_rules(<<>>)]

Init ==
    /\ grid = EmptyGrid
    /\ rule_manager = update_rules(<<>>)
    /\ won = FALSE
    /\ lost = FALSE
    /\ steps = 0
    /\ last = NoStep
    /\ twin = NoTwin
    /\ calls = 0

Actions == {"up", "down", "left", "right", "wait", "jump"}

\* the sink phase runs before the win/lose check
step_sink_first(action) ==
    /\ steps < MaxSteps
    /\ \E m \in move_phase(grid, rule_manager.properties, action) :
       \E pick \in TextPicks(m.grid) :
         LET rm == update_rules(extract_rules(m.grid, pick))
         IN  \E t \in apply_transformations(m.grid, rm.transformations) :
               LET sunk == handle_sinking(t, rm.properties)
                   wl == check_win_lose(sunk, rm.properties, won, lost)
               IN  /\ grid' = sunk
                   /\ rule_manager' = rm
                   /\ won' = wl.won
                   /\ lost' = wl.lost
                   /\ steps' = steps + 1
                   /\ last' = [op |-> "step", action |-> action, grid0 |-> grid,
                               props0 |-> rule_manager.properties,
                               won0 |-> won, lost0 |-> lost, steps0 |-> steps,
                               attempts |-> m.attempts, moved |-> m.grid,
                               transformed |-> t]

\* Grid.step as a relation: every state step(action) can leave, from cells
\* g, rule tables rm0 and flags w, l
step_outcomes(g, rm0, w, l, action) ==
    UNION {UNION {
      {LET rm == update_rules(extract_rules(m.grid, pick))
           wl == check_win_lose(t, rm.properties, w, l)
       IN  [grid |-> handle_sinking(t, rm.properties), rule_manager |-> rm,
            won |-> wl.won, lost |-> wl.lost]
         : t \in apply_transformations(
                   m.grid, update_rules(extract_rules(m.grid, pick)).transformations)}
      : pick \in TextPicks(m.grid)}
      : m \in move_phase(g, rm0.properties, action)}

\* no re-extraction: the later phases use the rule tables of the start
step_stale_rules(action) ==
    /\ steps < MaxSteps
    /\ \E m \in move_phase(grid, rule_manager.properties, action) :
         LET rm == rule_manager
         IN  \E t \in apply_transformations(m.grid, rm.transformations) :
               LET wl == check_win_lose(t, rm.properties, won, lost)
               IN  /\ grid' = handle_sinking(t, rm.properties)
                   /\ rule_manager' = rm
                   /\ won' = wl.won
                   /\ lost' = wl.lost
                   /\ steps' = steps + 1
                   /\ last' = [op |-> "step", action |-> action, grid0 |-> grid,
                               props0 |-> rule_manager.properties,
                               won0 |-> won, lost0 |-> lost, steps0 |-> steps,
                               attempts |-> m.attempts, moved |-> m.grid,
                               transformed |-> t]

\* a wait returns before the counter is touched
step_wait_uncounted(action) ==
    /\ steps < MaxSteps
    /\ \E m \in move_phase(grid, rule_manager.properties, action) :
       \E pick \in TextPicks(m.grid) :
         LET rm == update_rules(extract_rules(m.grid, pick))
         IN  \E t \in apply_transformations(m.grid, rm.transformations) :
               LET wl == check_win_lose(t, rm.properties, won, lost)
               IN  /\ grid' = handle_sinking(t, rm.properties)
                   /\ rule_manager' = rm
                   /\ won' = wl.won
                   /\ lost' = wl.lost
                   /\ steps' = IF Direction(action) = <<0, 0>> THEN steps ELSE steps + 1
                   /\ last' = [op |-> "step", action |-> action, grid0 |-> grid,
                               props0 |-> rule_manager.properties,
                               won0 |-> won, lost0 |-> lost, steps0 |-> steps,
                               attempts |-> m.attempts, moved |-> m.grid,
                               transformed |-> t]

step(action) ==
    /\ steps < MaxSteps
    /\ \E m \in move_phase(grid, rule_manager.properties, action) :
       \E pick \in TextPicks(m.grid) :
         LET rm == update_rules(extract_rules(m.grid, pick))
         IN  \E t \in apply_transformations(m.grid, rm.transformations) :
               LET wl == check_win_lose(t, rm.properties, won, lost)
               IN  /\ grid' = handle_sinking(t, rm.properties)
                   /\ rule_manager' = rm
                   /\ won' = wl.won
                   /\ lost' = wl.lost
                   /\ steps' = steps + 1
                   /\ last' = [op |-> "step", action |-> action, grid0 |-> grid,
                               props0 |-> rule_manager.properties,
                               won0 |-> won, lost0 |-> lost, steps0 |-> steps,
                               attempts |-> m.attempts, moved |-> m.grid,
                               transformed |-> t]

reset ==
    /\ grid # EmptyGrid \/ steps # 0
    /\ grid' = EmptyGrid
    /\ rule_manager' = update_rules(extract_rules(EmptyGrid, <<>>))
    /\ won' = FALSE
    /\ lost' = FALSE
    /\ steps' = 0
    /\ last' = [NoStep EXCEPT !.op = "reset"]

\* ------------------------------------------------ Environment setup
\* A level is the set of place_object calls of a setup(): <<type, x, y>>.
TextOf(word) ==
    CASE word = "YOU" -> "you_text"
      [] word = "WIN" -> "win_text"
      [] word = "STOP" -> "stop_text"
      [] word = "PUSH" -> "push_text"
      [] word = "SINK" -> "sink_text"
      [] word = "baba" -> "baba_text"
      [] word = "rock" -> "rock_text"
      [] word = "flag" -> "flag_text"

\* the sentence "subject IS complement" written left to right from (0, y)
Sentence(s, y) ==
    {<<TextOf(s[1]), 0, y>>, <<"is_text", 1, y>>, <<TextOf(s[2]), 2, y>>}

\* the same sentence written top to bottom from (x, 0)
Column(s, x) ==
    {<<TextOf(s[1]), x, 0>>, <<"is_text", x, 1>>, <<TextOf(s[2]), x, 2>>}

\* one or two sentences start in row 1 (row 0 stays free, so that a column
\* of text can be pushed upwards); three sentences start in row 0; a fourth
\* one is written downwards in column 3
Sentences(rs) ==
    UNION {IF i <= 3 THEN Sentence(rs[i], IF Len(rs) <= 2 THEN i ELSE i - 1)
           ELSE Column(rs[i], 3)
             : i \in 1 .. Len(rs)}

BabaIsYou == <<"baba", "YOU">>

RuleSets ==
    {<<>>, <<BabaIsYou>>}
    \cup {<<BabaIsYou, <<"rock", c>>>> : c \in {"YOU", "WIN", "STOP", "PUSH", "SINK", "flag"}}
    \cup {<<BabaIsYou, <<"flag", c>>>> : c \in {"WIN", "baba"}}
    \cup {<<BabaIsYou, <<"baba", c>>>> : c \in {"WIN", "STOP", "PUSH", "SINK", "rock"}}
    \cup {<<<<"rock", "PUSH">>>>, <<<<"rock", "flag">>>>,
          <<<<"rock", "flag">>, <<"flag", "rock">>>>}
    \cup {<<BabaIsYou, <<"flag", "WIN">>, <<"rock", c>>>> : c \in {"SINK", "PUSH", "STOP", "flag"}}
    \cup {<<BabaIsYou, <<"rock", "STOP">>, <<"rock", "PUSH">>>>,
          <<BabaIsYou, <<"rock", "PUSH">>, <<"flag", "PUSH">>>>,
          <<BabaIsYou, <<"rock", "flag">>, <<"flag", "baba">>>>,
          <<BabaIsYou, <<"rock", "flag">>, <<"rock", "baba">>>>,
          <<BabaIsYou, <<"flag", "WIN">>, <<"flag", "SINK">>, <<"flag", "rock">>>>}

\* the objects of the bottom row, as <<type, x>>
Patterns ==
    {{<<"baba", 0>>},
     {<<"baba", 0>>, <<"rock", 1>>},
     {<<"baba", 0>>, <<"rock", 1>>, <<"rock", 2>>},
     {<<"baba", 0>>, <<"rock", 1>>, <<"flag", 2>>},
     {<<"baba", 0>>, <<"flag", 0>>},
     {<<"baba", 0>>, <<"rock", 1>>, <<"flag", 1>>},
     {<<"baba", 1>>, <<"rock", 1>>, <<"flag", 2>>},
     {<<"baba", 0>>, <<"baba", 1>>, <<"rock", 2>>},
     {<<"rock", 0>>, <<"baba", 1>>, <<"flag", 2>>},
     {<<"rock", 1>>, <<"is_text", 1>>, <<"baba", 2>>},
     {<<"baba", 0>>, <<"win_text", 1>>, <<"rock", 2>>},
     {<<"rock", 0>>, <<"flag", 1>>}}

\* levels in which a push completes a sentence: BABA IS YOU in row 0, the
\* first two words of a sentence written downwards in column 3, and in row 2
\* baba next to the missing third word
Completing ==
    {Sentence(BabaIsYou, 0)
       \cup {<<"flag_text", 3, 0>>, <<"is_text", 3, 1>>,
             <<"baba", 1, 2>>, <<"win_text", 2, 2>>, <<"flag", 2, 2>>},
     Sentence(BabaIsYou, 0)
       \cup {<<"rock_text", 3, 0>>, <<"is_text", 3, 1>>,
             <<"baba", 1, 2>>, <<"flag_text", 2, 2>>, <<"rock", 0, 1>>}}

\* a level in which the mover faces two pushables of different kinds stacked
\* in one cell, one free cell behind them
Stacked ==
    {Sentences(<<<<"rock", "YOU">>, <<"baba", "PUSH">>>>)
       \cup {<<"baba", 1, H - 1>>, <<"is_text", 1, H - 1>>, <<"rock", 2, H - 1>>}}

\* a level in which a push completes the sentence FLAG IS WIN, written
\* downwards in column 3, with its third word on a cell that holds a rock,
\* while ROCK IS SINK is written in row 3
Sinking ==
    {Sentence(BabaIsYou, 0) \cup Sentence(<<"rock", "SINK">>, 3)
       \cup {<<"flag_text", 3, 0>>, <<"is_text", 3, 1>>, <<"rock", 3, 2>>,
             <<"baba", 1, 2>>, <<"win_text", 2, 2>>}}

\* a level in which baba pushes the YOU text out of BABA IS YOU (row 1)
\* while FLAG IS WIN stays written downwards in column 3 and a rock shares
\* a cell with a flag
Losing ==
    {Sentence(BabaIsYou, 1) \cup Column(<<"flag", "WIN">>, 3)
       \cup {<<"baba", 2, 2>>, <<"rock", 0, 3>>, <<"flag", 0, 3>>}}

Levels ==
    {Sentences(rs) \cup {<<o[1], o[2], H - 1>> : o \in pat} : rs \in RuleSets, pat \in Patterns}
    \cup Completing \cup Stacked \cup Sinking \cup Losing

RECURSIVE place_all(_, _)
place_all(g, level) ==
    IF level = {} THEN g
    ELSE LET o == CHOOSE o \in level : TRUE
         IN  place_all(place_object(g, o[1], o[2], o[3]), level \ {o})

\* Environment.__init__: a new Grid, setup(), then _update_rules()
env_setup(level) ==
    /\ grid = EmptyGrid /\ steps = 0
    /\ LET g == place_all(EmptyGrid, level)
       IN  /\ grid' = g
           /\ \E pick \in TextPicks(g) :
                rule_manager' = update_rules(extract_rules(g, pick))
    /\ won' = FALSE
    /\ lost' = FALSE
    /\ steps' = 0
    /\ last' = [NoStep EXCEPT !.op = "setup"]

Next ==
    \/ \E action \in Actions : step(action) /\ UNCHANGED <<twin, calls>>
    \/ reset /\ UNCHANGED <<twin, calls>>
    \/ (steps = 0 /\ \E level \in Levels : env_setup(level) /\ UNCHANGED <<twin, calls>>)

Spec == Init /\ [][Next]_vars

TypeOK ==
    /\ grid \in [Pos -> SUBSET Types]
    /\ won \in BOOLEAN
    /\ lost \in BOOLEAN
    /\ steps \in 0 .. MaxSteps

\* ------------------------------------------------ text layouts
\* Grids that hold three text instances: the first at TextStart, each next
\* one a step away from the one before.  The steps make lines to the right
\* and downwards, lines to the left and upwards, diagonals, corners, gaps, and
\* words put back on the cell of the first.
TextStart == <<1, 1>>

TextSteps == {<<1, 0>>, <<0, 1>>, <<1, 1>>, <<-1, 0>>, <<0, -1>>, <<2, 0>>}

TextWords == {"baba_text", "flag_text", "is_text", "you_text"}

TextLevels ==
    {{<<t[1], TextStart[1], TextStart[2]>>,
      <<t[2], TextStart[1] + d1[1], TextStart[2] + d1[2]>>,
      <<t[3], TextStart[1] + d1[1] + d2[1], TextStart[2] + d1[2] + d2[2]>>}
       : t \in TextWords \X TextWords \X TextWords, d1 \in TextSteps, d2 \in TextSteps}
    \cup {Sentence(BabaIsYou, 0) \cup {<<t, p[1], p[2]>>}
            : t \in TextWords, p \in {<<0, 0>>, <<1, 0>>, <<2, 0>>}}

\* Grids that hold two sentences, each written in row 0 or 1 or in column 0
\* or 3; the two may spell the same rule and may cross
TwoWords == {BabaIsYou, <<"flag", "WIN">>, <<"baba", "flag">>}

Written ==
    {Sentence(st, y) : st \in TwoWords, y \in {0, 1}}
    \cup {Column(st, x) : st \in TwoWords, x \in {0, 3}}

TwoSentences == {s1 \cup s2 : s1 \in Written, s2 \in Written}

NextRules ==
    \/ (steps = 0 /\ \E level \in TextLevels \cup TwoSentences :
          env_setup(level) /\ UNCHANGED <<twin, calls>>)
    \/ reset /\ UNCHANGED <<twin, calls>>

SpecRules == Init /\ [][NextRules]_vars

\* ------------------------------------------- direct calls on a Grid
\* the record `last` keeps of a direct call: its arguments, the cells before
\* it and what it returned
Call(op, obj, from, to, ok) ==
    [op |-> op, obj |-> obj, from |-> from, to |-> to, grid0 |-> grid, ok |-> ok]

call_place_object(obj, x, y) ==
    /\ calls < MaxCalls
    /\ grid' = place_object(grid, obj, x, y)
    /\ calls' = calls + 1
    /\ last' = Call("place_object", obj, None, <<x, y>>, None)
    /\ UNCHANGED <<rule_manager, won, lost, steps, twin>>

call_remove_object(obj, x, y) ==
    /\ calls < MaxCalls
    /\ grid' = remove_object(grid, obj, x, y)
    /\ calls' = calls + 1
    /\ last' = Call("remove_object", obj, None, <<x, y>>, None)
    /\ UNCHANGED <<rule_manager, won, lost, steps, twin>>

call_move_object(obj, from, to) ==
    /\ calls < MaxCalls
    /\ LET r == move_object(grid, obj, from[1], from[2], to[1], to[2])
       IN  /\ grid' = r.grid
           /\ last' = Call("move_object", obj, from, to, r.ok)
    /\ calls' = calls + 1
    /\ UNCHANGED <<rule_manager, won, lost, steps, twin>>

\* the grids, instances and coordinates the direct calls are made with:
\* cells inside the grid and coordinates beyond each of its four edges
OpsLevels ==
    {Sentences(<<BabaIsYou, <<"flag", "WIN">>>>)
       \cup {<<"baba", 1, H - 1>>, <<"flag", 2, H - 1>>, <<"rock", 1, H - 2>>},
     Sentences(<<BabaIsYou, <<"rock", "PUSH">>>>)
       \cup {<<"baba", 0, H - 1>>, <<"rock", 1, H - 1>>, <<"rock", 2, H - 1>>}}

OpObjs == {"baba", "rock"}

OpPos == {<<1, H - 1>>, <<2, H - 1>>, <<-1, H - 1>>, <<W, 0>>, <<1, H>>, <<2, -1>>}

NextOps ==
    \/ (steps = 0 /\ \E level \in OpsLevels : env_setup(level) /\ UNCHANGED <<twin, calls>>)
    \/ \E obj \in OpObjs, p \in OpPos : call_place_object(obj, p[1], p[2])
    \/ \E obj \in OpObjs, p \in OpPos : call_remove_object(obj, p[1], p[2])
    \/ \E obj \in OpObjs, from \in OpPos, to \in OpPos : call_move_object(obj, from, to)

SpecOps == Init /\ [][NextOps]_vars

\* ------------------------------------------------------------ Grid.copy
\* The second Grid is a record of its fields. Its cell store is a reference:
\* "own" is the store Grid.__init__ allocated for it (twin.grid), "shared" is
\* the store of the first Grid (the variable grid).
TwinCells == IF twin.cells = "own" THEN twin.grid ELSE grid

\* copy.deepcopy of one instance: a new instance of the same type
deepcopy(obj) == obj

\* the copy keeps the cell store of the original
copy_shared ==
    /\ twin.cells = None
    /\ \E pick \in TextPicks(grid) :
         twin' = [cells |-> "shared",
                  grid |-> [p \in Pos |-> {deepcopy(o) : o \in grid[p]}],
                  won |-> won, lost |-> lost, steps |-> steps,
                  rule_manager |-> update_rules(extract_rules(grid, pick))]
    /\ last' = [NoStep EXCEPT !.op = "copy"]
    /\ UNCHANGED <<grid, rule_manager, won, lost, steps, calls>>

copy ==
    /\ twin.cells = None
    /\ LET new_grid == [p \in Pos |-> {deepcopy(o) : o \in grid[p]}]
       IN  \E pick \in TextPicks(new_grid) :
             twin' = [cells |-> "own", grid |-> new_grid,
                      won |-> won, lost |-> lost, steps |-> steps,
                      rule_manager |-> update_rules(extract_rules(new_grid, pick))]
    /\ last' = [NoStep EXCEPT !.op = "copy"]
    /\ UNCHANGED <<grid, rule_manager, won, lost, steps, calls>>

\* a write of cells g to the store the second Grid refers to
twin_store(g) ==
    /\ twin' = [twin EXCEPT !.grid = IF twin.cells = "own" THEN g ELSE @]
    /\ grid' = IF twin.cells = "own" THEN grid ELSE g

\* step, place_object and remove_object called on the second Grid
twin_step(action) ==
    /\ twin.cells # None
    /\ calls < MaxCalls
    /\ twin.steps < MaxSteps
    /\ \E r \in step_outcomes(TwinCells, twin.rule_manager, twin.won, twin.lost, action) :
         /\ twin' = [twin EXCEPT !.grid = IF twin.cells = "own" THEN r.grid ELSE @,
                                 !.rule_manager = r.rule_manager,
                                 !.won = r.won, !.lost = r.lost,
                                 !.steps = @ + 1]
         /\ grid' = IF twin.cells = "own" THEN grid ELSE r.grid
    /\ calls' = calls + 1
    /\ last' = [NoStep EXCEPT !.op = "twin_step", !.action = action]
    /\ UNCHANGED <<rule_manager, won, lost, steps>>

twin_place_object(obj, x, y) ==
    /\ twin.cells # None
    /\ calls < MaxCalls
    /\ twin_store(place_object(TwinCells, obj, x, y))
    /\ calls' = calls + 1
    /\ last' = [NoStep EXCEPT !.op = "twin_place_object"]
    /\ UNCHANGED <<rule_manager, won, lost, steps>>

twin_remove_object(obj, x, y) ==
    /\ twin.cells # None
    /\ calls < MaxCalls
    /\ twin_store(remove_object(TwinCells, obj, x, y))
    /\ calls' = calls + 1
    /\ last' = [NoStep EXCEPT !.op = "twin_remove_object"]
    /\ UNCHANGED <<rule_manager, won, lost, steps>>

\* the levels, actions and arguments the copies are exercised with
CopyLevels ==
    {Sentences(<<BabaIsYou, <<"flag", "WIN">>, <<"rock", "SINK">>>>)
       \cup {<<"baba", 1, H - 1>>, <<"flag", 2, H - 1>>, <<"rock", 1, H - 2>>},
     Sentences(<<BabaIsYou, <<"rock", "PUSH">>, <<"rock", "flag">>>>)
       \cup {<<"baba", 0, H - 1>>, <<"rock", 1, H - 1>>}}

CopyActions == {"right", "up", "wait"}

CopyObjs == {"rock", "is_text"}

CopyPos == {<<1, 0>>, <<2, H - 1>>}

\* a step of the first Grid counts as a call once the copy exists
NextCopy ==
    \/ (steps = 0 /\ \E level \in CopyLevels : env_setup(level) /\ UNCHANGED <<twin, calls>>)
    \/ \E action \in CopyActions :
         /\ twin.cells # None => calls < MaxCalls
         /\ step(action)
         /\ calls' = IF twin.cells = None THEN calls ELSE calls + 1
         /\ UNCHANGED twin
    \/ copy
    \/ \E action \in CopyActions : twin_step(action)
    \/ \E obj \in CopyObjs, p \in CopyPos : twin_place_object(obj, p[1], p[2])
    \/ \E obj \in CopyObjs, p \in CopyPos : twin_remove_object(obj, p[1], p[2])
    \/ \E obj \in CopyObjs, p \in CopyPos : twin.cells # None /\ call_place_object(obj, p[1], p[2])
    \/ \E obj \in CopyObjs, p \in CopyPos : twin.cells # None /\ call_remove_object(obj, p[1], p[2])

SpecCopy == Init /\ [][NextCopy]_vars

\* ------------------------------------------------- instance identity
\* Which Python object sits in which cell.  A holding is <<cell, type, id>>;
\* the id of an instance is the cell and type it had when the move phase
\* began.  A cell is a set, and instances of one type are equal, so a cell
\* has at most one holding per type: discard takes out the holding of the
\* type whichever object it is, and add keeps the object already there.
Holdings(g) == UNION {{<<p, o, <<p, o>>>> : o \in g[p]} : p \in Pos}

IdAt(held, p, o) == (CHOOSE h \in held : h[1] = p /\ h[2] = o)[3]

held_remove(held, p, o) == {h \in held : ~(h[1] = p /\ h[2] = o)}

held_place(held, p, o, id) ==
    IF \E h \in held : h[1] = p /\ h[2] = o THEN held ELSE held \cup {<<p, o, id>>}

\* the move_object calls of one attempt, in the order made.  A pushed object
\* is the one taken from its cell; the mover (the last call of an attempt
\* that succeeded) is the object of the find_objects snapshot.
RECURSIVE replay_log(_, _, _, _)
replay_log(a, k, held, mover) ==
    IF k > Len(a.log) THEN held
    ELSE LET e == a.log[k]
             id == IF a.ok /\ k = Len(a.log) THEN mover ELSE IdAt(held, e.from, e.obj)
         IN  replay_log(a, k + 1,
                        held_place(held_remove(held, e.from, e.obj), e.to, e.obj, id),
                        mover)

\* the attempts of a move phase; find_objects is called once per YOU name,
\* so the snapshot is the holdings at the first attempt of each name
RECURSIVE replay(_, _, _, _)
replay(attempts, i, held, snap) ==
    IF i > Len(attempts) THEN held
    ELSE LET a == attempts[i]
             snapshot == IF i = 1 \/ attempts[i - 1].obj # a.obj THEN held ELSE snap
         IN  replay(attempts, i + 1,
                    replay_log(a, 1, held, IdAt(snapshot, a.from, a.obj)),
                    snapshot)

\* the holdings at the end of the move phase of the last step
HeldAfterMove == replay(last.attempts, 1, Holdings(last.grid0), Holdings(last.grid0))

\* ----------------------------------------------------------- vocabulary
IsStep == last.op = "step"

Directions == {"up", "down", "left", "right"}

Holds(props, obj, prop) == \E i \in 1 .. Len(props) : props[i].name = upper(obj) /\ prop \in props[i].props

NoYou(props) == \A i \in 1 .. Len(props) : "YOU" \notin props[i].props

\* the property table of the step's start is the one a recompute gives
Recomputed0 ==
    \E pick \in TextPicks(last.grid0) :
      last.props0 = compute_properties(extract_rules(last.grid0, pick))

\* a YOU instance and a WIN instance of another type in cell p
PairAt(g, props, p, a, b) ==
    /\ a \in g[p] /\ b \in g[p] /\ a # b
    /\ Holds(props, a, "YOU") /\ Holds(props, b, "WIN")

SharesCell(g, props) == \E p \in Pos : \E a, b \in g[p] : PairAt(g, props, p, a, b)

\* ---------------------------------------------------------------- claims

\* C1: from a grid whose rule tables are recomputed and in which no subject
\* holds YOU, a step with any action returns with lost = TRUE.
C1_LoseInvariant ==
    (IsStep /\ NoYou(last.props0) /\ Recomputed0) => lost

C1_Witness ==
    /\ IsStep /\ Recomputed0 /\ NoYou(last.props0)
    /\ last.grid0 # EmptyGrid /\ ~last.lost0 /\ last.action = "right" /\ lost

\* C2 as stated: from a grid (rules recomputed) in which a YOU instance shares
\* a cell with a WIN instance, a step with any action results in won = TRUE.
C2_WinInvariant ==
    (IsStep /\ SharesCell(last.grid0, last.props0) /\ Recomputed0) => won

\* C2 amended: the step is a wait or an unknown action, and neither instance
\* of the pair is transformed in that step.
C2_WinOnWait ==
    (/\ IsStep /\ last.action \notin Directions
     /\ \E p \in Pos : \E a, b \in last.grid0[p] :
          /\ PairAt(last.grid0, last.props0, p, a, b)
          /\ get_transformation(rule_manager.transformations, a) = None
          /\ get_transformation(rule_manager.transformations, b) = None
     /\ Recomputed0)
    => won

C2_Witness ==
    /\ IsStep /\ Recomputed0 /\ last.action = "wait" /\ ~last.won0 /\ won
    /\ SharesCell(last.grid0, last.props0)

\* C3: if at the win/lose check of a step (after move, re-extraction and
\* transformations) a YOU instance shares a cell with an instance of another
\* type that holds WIN, the step returns won = TRUE.
C3_WinAtCheck ==
    (IsStep /\ SharesCell(last.transformed, rule_manager.properties)) => won

\* a YOU instance moved onto a WIN instance stacked with a third instance
C3_Witness ==
    /\ IsStep /\ ~last.won0 /\ won
    /\ \E i \in 1 .. Len(last.attempts) :
         LET a == last.attempts[i]
         IN  /\ a.ok
             /\ Holds(rule_manager.properties, a.obj, "YOU")
             /\ \E b \in last.transformed[a.to] :
                  b # a.obj /\ Holds(rule_manager.properties, b, "WIN")
             /\ a.obj \in last.transformed[a.to]
             /\ Cardinality(last.transformed[a.to]) >= 3

\* C4: won and lost are sticky over step; reset (or a new Grid) clears them.
C4_Sticky ==
    /\ IsStep => ((last.won0 => won) /\ (last.lost0 => lost))
    /\ last.op \in {"reset", "setup"} => (~won /\ ~lost)

\* a step taken after a win whose movement changed the rules and left no
\* YOU instance on a WIN instance
C4_Witness ==
    /\ IsStep /\ last.won0 /\ won
    /\ last.props0 # rule_manager.properties
    /\ ~SharesCell(last.transformed, rule_manager.properties)

\* the contents of a cell, nothing outside the grid
CellAt(g, p) == IF p \in Pos THEN g[p] ELSE {}

\* at the start of attempt a, cell p holds an instance with STOP
HoldsStop(a, p) == \E o \in CellAt(a.before, p) : Holds(last.props0, o, "STOP")

Shift(p, d) == <<p[1] + d[1], p[2] + d[2]>>

\* every move_object call of the step's move phase
Moves == UNION {Range(last.attempts[i].log) : i \in 1 .. Len(last.attempts)}

\* no move_object call of the move phase targets a cell that holds an
\* instance with STOP (rules of the start of the step)
NoMoveIntoStop ==
    \A e \in Moves : \A o \in e.at : ~Holds(last.props0, o, "STOP")

\* an attempt of a YOU instance whose target holds a STOP instance fails and
\* changes no cell, whether or not that instance also holds PUSH
StopFailsAttempt ==
    \A i \in 1 .. Len(last.attempts) :
      LET a == last.attempts[i]
      IN  HoldsStop(a, a.to)
            => (~a.ok /\ a.after = a.before /\ a.log = <<>>)

\* at the start of the step: YOU instance t in cell p, STOP instance s in
\* the cell next to p in the direction of the action
InFront(p) == CellAt(last.grid0, Shift(p, Direction(last.action)))

FacesStop(p, t, s) ==
    /\ t \in last.grid0[p] /\ Holds(last.props0, t, "YOU")
    /\ s \in InFront(p) /\ Holds(last.props0, s, "STOP")

BothStay(p, t, s) ==
    /\ t \in last.moved[p]
    /\ s \in CellAt(last.moved, Shift(p, Direction(last.action)))

\* C5 as stated, read over the step: no instance is moved into a cell with a
\* STOP instance, and a YOU instance whose target cell holds a STOP instance
\* at the start of the step is still in its cell after the move phase, and so
\* is the STOP instance.
C5_StopBlocksStep ==
    (IsStep /\ last.action \in Directions) =>
      /\ NoMoveIntoStop
      /\ \A p \in Pos : \A t \in last.grid0[p] : \A s \in InFront(p) :
           FacesStop(p, t, s) => BothStay(p, t, s)

\* C5 amended: no instance is moved into a cell with a STOP instance; a move
\* attempt whose target holds a STOP instance (with or without PUSH) fails
\* and moves nothing; and over the whole move phase both instances stay when
\* the type of the STOP instance does not itself hold YOU.
C5_StopBlocks ==
    (IsStep /\ last.action \in Directions) =>
      /\ NoMoveIntoStop
      /\ StopFailsAttempt
      /\ \A p \in Pos : \A t \in last.grid0[p] : \A s \in InFront(p) :
           (FacesStop(p, t, s) /\ ~Holds(last.props0, s, "YOU")) => BothStay(p, t, s)

\* a YOU instance walked into an instance that holds STOP and PUSH
C5_Witness ==
    /\ IsStep /\ last.action \in Directions
    /\ \E i \in 1 .. Len(last.attempts) :
         LET a == last.attempts[i]
         IN  /\ ~a.ok
             /\ \E s \in CellAt(a.before, a.to) :
                  /\ Holds(last.props0, s, "STOP") /\ Holds(last.props0, s, "PUSH")
                  /\ s # a.obj
                  /\ FacesStop(a.from, a.obj, s) /\ BothStay(a.from, a.obj, s)
                  /\ CellAt(last.grid0, Shift(a.to, Direction(last.action))) = {}

\* ---- push chains, per move attempt a of the move phase
\* the i-th cell in front of the mover
Ahead(a, i) == <<a.from[1] + i * (a.to[1] - a.from[1]), a.from[2] + i * (a.to[2] - a.from[2])>>

Pushable(a, p) ==
    {o \in CellAt(a.before, p) : Holds(last.props0, o, "PUSH") \/ o \in TextNames}

\* the mover is in its cell, the k cells in front of it hold one pushable
\* instance each, and the cell after them is in bounds and holds no STOP and
\* no pushable instance
FacesLine(a, k) ==
    /\ a.obj \in CellAt(a.before, a.from)
    /\ Ahead(a, k + 1) \in Pos
    /\ \A i \in 1 .. k : Cardinality(Pushable(a, Ahead(a, i))) = 1
    /\ Pushable(a, Ahead(a, k + 1)) = {}
    /\ ~HoldsStop(a, Ahead(a, k + 1))

NoStopInLine(a, k) ==
    \A i \in 1 .. k : ~HoldsStop(a, Ahead(a, i))

\* the grid in which the mover and the k pushed instances are one cell
\* further and nothing else has changed
ShiftedLine(a, k) ==
    [p \in Pos |->
       IF p = a.from THEN a.before[p] \ {a.obj}
       ELSE IF \E i \in 1 .. k + 1 : p = Ahead(a, i)
       THEN LET i == CHOOSE i \in 1 .. k + 1 : p = Ahead(a, i)
            IN  (a.before[p] \ Pushable(a, p))
                  \cup (IF i = 1 THEN {a.obj} ELSE Pushable(a, Ahead(a, i - 1)))
       ELSE a.before[p]]

MaxLine == W + H

\* C6 as stated: a YOU instance that moves toward a line of k >= 1 cells with
\* one pushable instance each, followed by a cell in bounds without STOP and
\* without pushable instance, moves, and it and the k pushed instances are
\* each one cell further.
C6_PushChainAsStated ==
    IsStep =>
      \A n \in 1 .. Len(last.attempts) : \A k \in 1 .. MaxLine :
        LET a == last.attempts[n]
        IN  FacesLine(a, k) => (a.ok /\ a.after = ShiftedLine(a, k))

\* C6 amended: the same when, in addition, no instance in the k cells of the
\* line holds STOP; the positions are those at the return of the attempt.
C6_PushChain ==
    IsStep =>
      \A n \in 1 .. Len(last.attempts) : \A k \in 1 .. MaxLine :
        LET a == last.attempts[n]
        IN  (FacesLine(a, k) /\ NoStopInLine(a, k))
              => (a.ok /\ a.after = ShiftedLine(a, k))

\* a line of two, a text instance and an instance with PUSH, was pushed
C6_Witness ==
    /\ IsStep
    /\ \E n \in 1 .. Len(last.attempts) :
         LET a == last.attempts[n]
         IN  /\ FacesLine(a, 2) /\ NoStopInLine(a, 2) /\ a.ok
             /\ \E t, o \in Types :
                  /\ is_text(t) /\ ~is_text(o) /\ o # a.obj
                  /\ Pushable(a, Ahead(a, 1)) \cup Pushable(a, Ahead(a, 2)) = {t, o}
                  /\ {t, o} \subseteq a.after[Ahead(a, 2)] \cup a.after[Ahead(a, 3)]
                  /\ a.obj \in last.moved[a.to]

\* C7: a move attempt of a YOU instance that fails (target out of bounds, a
\* STOP instance at the target, or a push failing along its chain) has moved
\* no instance: the grid at its return is the grid at its start.
C7_FailedMoveInPlace ==
    IsStep =>
      \A n \in 1 .. Len(last.attempts) :
        LET a == last.attempts[n]
        IN  ~a.ok => (a.after = a.before /\ a.log = <<>>)

\* ---- transformations of the step
\* X IS Y is the transformation in force for X: the last extracted rule with
\* subject X whose complement is not a property
TransformsTo(X, Y) ==
    \E i \in 1 .. Len(rule_manager.rules) :
      /\ rule_manager.rules[i] = <<X, "IS", Y>> /\ Y \notin Property
      /\ \A j \in (i + 1) .. Len(rule_manager.rules) :
           rule_manager.rules[j][1] = X => rule_manager.rules[j][3] \in Property

TextIn(cell) == cell \cap TextNames

\* C8: when X IS Y is in force after the step's re-extraction (Y a registered
\* object type), every cell that held a non-text X before the transformation
\* phase holds a Y after it, and no X unless X is itself the target of a
\* transformation applied in that cell; the text instances of every cell are
\* the same before and after the phase.
C8_Transformed ==
    IsStep =>
      \A p \in Pos :
        /\ TextIn(last.transformed[p]) = TextIn(last.moved[p])
        /\ \A x, y \in ObjectNames :
             (TransformsTo(upper(x), upper(y)) /\ x \in last.moved[p]) =>
               /\ y \in last.transformed[p]
               /\ (x \in last.transformed[p]) =>
                    \E z \in last.moved[p] : TransformsTo(upper(z), upper(x))

\* ---- sinking
\* cell p holds, at the start of the sink phase, an instance whose type holds
\* SINK under the rules extracted in the step
SinkIn(p) == \E o \in last.transformed[p] : Holds(rule_manager.properties, o, "SINK")

\* C9: when step returns no cell holds an instance with SINK (rules extracted
\* in that step); every cell that held one at the start of the sink phase is
\* empty, and every other cell holds what it held.
C9_Sink ==
    IsStep =>
      \A p \in Pos :
        /\ \A o \in grid[p] : ~Holds(rule_manager.properties, o, "SINK")
        /\ SinkIn(p) => grid[p] = {}
        /\ ~SinkIn(p) => grid[p] = last.transformed[p]

\* a YOU instance walked onto a SINK instance: both are gone, the rest stays
C9_Witness ==
    /\ IsStep
    /\ \E n \in 1 .. Len(last.attempts) :
         LET a == last.attempts[n]
         IN  /\ a.ok /\ SinkIn(a.to)
             /\ Cardinality(last.transformed[a.to]) >= 2
             /\ \E o \in last.transformed[a.to] : ~Holds(rule_manager.properties, o, "SINK")
             /\ grid[a.to] = {}
    /\ \E p \in Pos : grid[p] # {} /\ TextIn(grid[p]) = {}

\* ---- win and sink in one cell
\* cell p of grid g holds a YOU instance, an instance of another type that
\* holds WIN, and an instance that holds SINK (rules extracted in the step)
WinAndSinkAt(g, p) ==
    /\ \E a, b \in g[p] : PairAt(g, rule_manager.properties, p, a, b)
    /\ \E c \in g[p] : Holds(rule_manager.properties, c, "SINK")

\* C10 as stated: a YOU instance that ends the move phase in a cell with a WIN
\* instance and a SINK instance wins in that step, and the cell is emptied.
C10_WinBeforeSinkAfterMove ==
    IsStep => \A p \in Pos : WinAndSinkAt(last.moved, p) => (won /\ grid[p] = {})

\* C10 amended: the same for the cell as it is at the win/lose check, after
\* the transformations of the step.
C10_WinBeforeSink ==
    IsStep => \A p \in Pos : WinAndSinkAt(last.transformed, p) => (won /\ grid[p] = {})

\* a YOU instance walked onto a WIN instance stacked with a SINK instance:
\* the step turned won to TRUE and emptied the cell
C10_Witness ==
    /\ IsStep /\ ~last.won0 /\ won
    /\ \E n \in 1 .. Len(last.attempts) :
         LET a == last.attempts[n]
         IN  /\ a.ok /\ Holds(rule_manager.properties, a.obj, "YOU")
             /\ WinAndSinkAt(last.transformed, a.to)
             /\ a.obj \in last.transformed[a.to]
             /\ grid[a.to] = {}
    /\ \A p \in Pos : ~SharesCell(grid, rule_manager.properties)

\* ---- the last YOU instance destroyed
\* the instances of grid g whose type holds YOU, as <<cell, type>>
YouInstances(g, props) ==
    UNION {{<<p, o>> : o \in {t \in g[p] : Holds(props, t, "YOU")}} : p \in Pos}

\* C11: when the only YOU instance moves into a cell that holds a SINK
\* instance and is destroyed there, the step ends with that cell empty and
\* lost = TRUE.
C11_LostWhenYouSunk ==
    IsStep =>
      \A n \in 1 .. Len(last.attempts) :
        LET a == last.attempts[n]
        IN  (/\ a.ok /\ a.obj \in last.transformed[a.to]
             /\ YouInstances(last.grid0, last.props0) = {<<a.from, a.obj>>}
             /\ Holds(rule_manager.properties, a.obj, "YOU")
             /\ SinkIn(a.to)
             /\ YouInstances(grid, rule_manager.properties) = {})
            => (grid[a.to] = {} /\ lost)

\* ---- which rules the later phases of a step use
\* the rule tables are those extracted from the grid the move phase left
PostMoveRules ==
    \E pick \in TextPicks(last.moved) :
      rule_manager = update_rules(extract_rules(last.moved, pick))

ObjectsIn(cell) == cell \ TextNames

HasTransform(x) == \E y \in ObjectNames : TransformsTo(upper(x), upper(y))

\* C12: the rules are re-extracted from the grid the move phase left, and
\* the later phases use them: no YOU subject in them gives lost = TRUE in
\* that step; an instance is transformed exactly by the transformation they
\* hold for it; won is set exactly on a YOU/WIN pair under them; and the
\* cells cleared are exactly those with a SINK instance under them.
C12_PostMoveRules ==
    IsStep =>
      /\ PostMoveRules
      /\ NoYou(rule_manager.properties) => lost
      /\ \A p \in Pos : \A x \in ObjectsIn(last.moved[p]) :
           /\ ~HasTransform(x) => x \in last.transformed[p]
           /\ \A y \in ObjectNames :
                (TransformsTo(upper(x), upper(y)) /\ ObjectsIn(last.moved[p]) = {x})
                  => ObjectsIn(last.transformed[p]) = {y}
      /\ won <=> (last.won0 \/ (~NoYou(rule_manager.properties)
                                  /\ SharesCell(last.transformed, rule_manager.properties)))
      /\ \A p \in Pos : grid[p] = IF SinkIn(p) THEN {} ELSE last.transformed[p]

\* the movement broke the only sentence granting YOU: lost in that step
C12_Witness ==
    /\ IsStep /\ ~last.lost0 /\ lost
    /\ ~NoYou(last.props0) /\ NoYou(rule_manager.properties)
    /\ last.moved # last.grid0

\* the movement completed FLAG IS WIN and the step won
C12_WitnessWin ==
    /\ IsStep /\ ~last.won0 /\ won
    /\ ~SharesCell(last.transformed, last.props0)
    /\ SharesCell(last.transformed, rule_manager.properties)

\* the movement completed ROCK IS FLAG and the rock became a flag
C12_WitnessTransform ==
    /\ IsStep /\ last.moved # last.grid0
    /\ \E p \in Pos : last.moved[p] = {"rock"} /\ last.transformed[p] = {"flag"}
    /\ \A i \in 1 .. Len(last.props0) : last.props0[i].name # "ROCK"
    /\ <<"ROCK", "IS", "FLAG">> \in Range(rule_manager.rules)
    /\ \E p \in Pos : "flag_text" \in last.moved[p] /\ "flag_text" \notin last.grid0[p]

\* C13: step is a function of the cells (which types in which cells), the
\* rule tables, the flags and the action: from every state, each action has
\* one outcome, whatever the order in which stacked instances are iterated.
C13_Deterministic ==
    steps < MaxSteps =>
      \A action \in Actions :
        Cardinality(step_outcomes(grid, rule_manager, won, lost, action)) = 1

\* C14: copy() gives an independent Grid.  Right after copy() the second
\* Grid holds the same types in the same cells and the same won, lost and
\* steps as the first, and its rule tables are the ones extracted from its own
\* cells; the call leaves the first Grid as it was.  Afterwards a step,
\* place_object or remove_object on the second Grid leaves the cells, rule
\* tables, flags and step counter of the first unchanged, and such a call on
\* the first leaves those of the second unchanged.
OrigView == <<grid, rule_manager, won, lost, steps>>

TwinView == <<TwinCells, twin.rule_manager, twin.won, twin.lost, twin.steps>>

TwinOps == {"twin_step", "twin_place_object", "twin_remove_object"}

OrigOps == {"step", "place_object", "remove_object"}

C14_CopyIndependent ==
    [][/\ last'.op = "copy" =>
            /\ OrigView' = OrigView
            /\ \A p \in Pos : TwinCells'[p] = grid[p]
            /\ twin'.won = won /\ twin'.lost = lost /\ twin'.steps = steps
            /\ \E pick \in TextPicks(TwinCells') :
                 LET rs == extract_rules(TwinCells', pick)
                 IN  /\ twin'.rule_manager.rules = rs
                     /\ twin'.rule_manager.properties = compute_properties(rs)
                     /\ twin'.rule_manager.transformations = compute_transformations(rs)
       /\ last'.op \in TwinOps => OrigView' = OrigView
       /\ (twin.cells # None /\ last'.op \in OrigOps) => TwinView' = TwinView
      ]_vars

\* the copy was made after a step, then stepped on its own and won, while the
\* first Grid is still where it was when copied
C14_Witness ==
    /\ twin.cells # None
    /\ last.op = "twin_step"
    /\ twin.won /\ ~won
    /\ steps > 0 /\ twin.steps = steps + 1
    /\ TwinCells # grid

\* the first Grid was stepped after the copy was made
C14_WitnessBack ==
    /\ twin.cells # None
    /\ last.op = "step"
    /\ twin.steps < steps
    /\ TwinCells # grid

\* C15: a cell may hold several instances of one type.  After place_object
\* of a newly created instance on a cell that already holds an instance of
\* the same type, the cell holds one instance more than before.
InstancesAt(g, p) == Cardinality(g[p])

C15_BothHeld ==
    (/\ last.op = "place_object"
     /\ InBounds(last.to[1], last.to[2])
     /\ last.obj \in last.grid0[last.to])
      => InstancesAt(grid, last.to) = InstancesAt(last.grid0, last.to) + 1

\* C19: out-of-bounds operations are silent no-ops.  place_object and
\* remove_object with coordinates outside the grid and move_object with a
\* target outside the grid leave every cell as it was (the object stays in
\* its source cell), move_object returns False, and get_objects_at outside
\* the grid is the empty set.
DirectCalls == {"place_object", "remove_object", "move_object"}

Outside(p) == ~(0 <= p[1] /\ p[1] < W /\ 0 <= p[2] /\ p[2] < H)

C19_OutOfBounds ==
    /\ (last.op \in DirectCalls /\ Outside(last.to)) =>
          /\ \A p \in Pos : grid[p] = last.grid0[p]
          /\ last.op = "move_object" => last.ok = FALSE
    /\ \A x \in -1 .. W, y \in -1 .. H :
         Outside(<<x, y>>) => get_objects_at(grid, x, y) = {}

\* a move_object of an instance that is in its source cell to a target
\* outside the grid
C19_Witness ==
    /\ last.op = "move_object"
    /\ last.ok = FALSE
    /\ Outside(last.to) /\ ~Outside(last.from)
    /\ last.obj \in last.grid0[last.from]
    /\ last.obj \in grid[last.from]

\* C20: move_object cannot move an object that is not there.  When the
\* object is not in the source cell, move_object returns False, also when the
\* target cell is inside the grid.
C20_AbsentMoveFails ==
    (/\ last.op = "move_object"
     /\ (Outside(last.from) \/ last.obj \notin last.grid0[last.from]))
      => last.ok = FALSE

\* C16: the rule list is made of the windows that read as a sentence.  A
\* window is three consecutive cells, read left-to-right in a row or
\* top-to-bottom in a column.  Every rule in the list is (noun upper-cased,
\* IS, property name or noun upper-cased) of a window whose first cell holds
\* that noun text, whose second holds IS and whose third holds that property
\* or noun text; every window whose three cells hold one text instance each,
\* a noun, IS and a property or noun, has its rule in the list; and where no
\* cell holds two text instances the list has one entry per such window.
\* Text that is incomplete, has a gap, is diagonal or reads right-to-left or
\* bottom-to-top therefore gives no rule.
RulesGrid == IF last.op = "step" THEN last.moved ELSE grid

Windows ==
    {<<p, d>> \in Pos \X {<<1, 0>>, <<0, 1>>} : p[1] + 2 * d[1] < W /\ p[2] + 2 * d[2] < H}

WindowCell(w, k) == <<w[1][1] + k * w[2][1], w[1][2] + k * w[2][2]>>

Complements(t) ==
    IF t \in PropertyTexts THEN {property(t)}
    ELSE IF t \in NounTexts THEN {upper(noun(t))}
    ELSE {}

\* the rules window w can be read as
Reads(g, w) ==
    IF "is_text" \notin g[WindowCell(w, 1)] THEN {}
    ELSE {<<upper(noun(t1)), "IS", c>> :
            t1 \in g[WindowCell(w, 0)] \cap NounTexts,
            c \in UNION {Complements(t3) : t3 \in g[WindowCell(w, 2)]}}

OneTextEach(g, w) ==
    \A k \in 0 .. 2 : Cardinality(g[WindowCell(w, k)] \cap TextNames) = 1

C16_Windows ==
    LET g == RulesGrid
        rs == rule_manager.rules
    IN  /\ \A i \in 1 .. Len(rs) : \E w \in Windows : rs[i] \in Reads(g, w)
        /\ \A w \in Windows : OneTextEach(g, w) => Reads(g, w) \subseteq Range(rs)
        /\ (\A p \in Pos : Cardinality(g[p] \cap TextNames) <= 1)
             => Len(rs) = Cardinality({w \in Windows : Reads(g, w) # {}})

\* a layout of three words that are a noun, IS and a complement but do not
\* read as a sentence (reversed, diagonal, bent or with a gap): no rule
C16_Witness ==
    /\ last.op = "setup"
    /\ rule_manager.rules = <<>>
    /\ \E p \in Pos : "baba_text" \in grid[p]
    /\ \E p \in Pos : "is_text" \in grid[p]
    /\ \E p \in Pos : "you_text" \in grid[p]

\* a column that reads BABA IS YOU top-to-bottom gives the rule
C16_WitnessColumn ==
    /\ last.op = "setup"
    /\ rule_manager.rules = <<<<"BABA", "IS", "YOU">>>>
    /\ "baba_text" \in grid[<<1, 1>>] /\ "you_text" \in grid[<<1, 3>>]

\* right-to-left text gives no rule
C16_WitnessReversed ==
    /\ last.op = "setup"
    /\ rule_manager.rules = <<>>
    /\ "you_text" \in grid[<<0, 1>>] /\ "is_text" \in grid[<<1, 1>>]
    /\ "baba_text" \in grid[<<2, 1>>]

\* C17: the lookup tables are a function of the rule list R the manager was
\* last updated with.  For every subject s, properties[s] is the set of the
\* Property values p with a rule (s IS p) in R (no entry when there is none),
\* and transformations[s] is the complement of the last rule of R with subject
\* s whose complement is not a Property (no entry when there is none).  Each
\* table has at most one entry per subject, and with R empty both are empty.
Subjects == {upper(n) : n \in ObjectNames}

PropertyEntries(s) ==
    {i \in 1 .. Len(rule_manager.properties) : rule_manager.properties[i].name = s}

TransformationEntries(s) == {e \in rule_manager.transformations : e[1] = s}

NounRules(R, s) == {i \in 1 .. Len(R) : R[i][1] = s /\ R[i][2] = "IS" /\ R[i][3] \notin Property}

Last(idx) == CHOOSE i \in idx : \A j \in idx : j <= i

C17_Tables ==
    LET R == rule_manager.rules
    IN  /\ \A s \in Subjects :
             LET ps == {p \in Property : <<s, "IS", p>> \in Range(R)}
                 ns == NounRules(R, s)
             IN  /\ IF ps = {} THEN PropertyEntries(s) = {}
                     ELSE /\ Cardinality(PropertyEntries(s)) = 1
                          /\ \A i \in PropertyEntries(s) :
                               rule_manager.properties[i].props = ps
                 /\ IF ns = {} THEN TransformationEntries(s) = {}
                     ELSE TransformationEntries(s) = {<<s, R[Last(ns)][3]>>}
        /\ \A i \in 1 .. Len(rule_manager.properties) :
             rule_manager.properties[i].name \in Subjects
        /\ \A e \in rule_manager.transformations : e[1] \in Subjects
        /\ R = <<>> => rule_manager.properties = <<>> /\ rule_manager.transformations = {}

\* a step updated the manager with a list that has two rules of one subject
\* with different nouns as complements: the table holds the later one
C17_Witness ==
    /\ IsStep
    /\ \E s \in Subjects :
         LET R == rule_manager.rules
             ns == NounRules(R, s)
         IN  /\ Cardinality(ns) = 2
             /\ \E i \in ns : R[i][3] # R[Last(ns)][3]
             /\ <<s, R[Last(ns)][3]>> \in rule_manager.transformations

\* a step updated a manager that held properties with the empty list
C17_WitnessEmpty ==
    /\ IsStep
    /\ last.props0 # <<>>
    /\ rule_manager.rules = <<>>

\* two properties for one subject
C17_WitnessUnion ==
    \E s \in Subjects : \E i \in PropertyEntries(s) :
      Cardinality(rule_manager.properties[i].props) = 2

\* C18: an unknown action is treated as wait.  A step with an action
\* outside {up, down, left, right} makes no move attempt and leaves the move
\* phase with the cells it started from; the cells, rule tables and flags it
\* ends with are an outcome of step("wait") from the state it started in,
\* and what a step("wait") ends with is an outcome of a step with any unknown
\* action; both count as a step.
Unknown == Actions \ (Directions \cup {"wait"})

\* the end of the last step is what step(action) can give from its start
OutcomeOf(action) ==
    [grid |-> grid, rule_manager |-> rule_manager, won |-> won, lost |-> lost]
      \in step_outcomes(last.grid0, [properties |-> last.props0],
                        last.won0, last.lost0, action)

C18_UnknownIsWait ==
    /\ (IsStep /\ last.action \in Unknown) =>
          /\ last.attempts = <<>>
          /\ \A p \in Pos : last.moved[p] = last.grid0[p]
          /\ steps > 0
          /\ OutcomeOf("wait")
    /\ (IsStep /\ last.action = "wait") =>
          \A action \in Unknown : OutcomeOf(action)

\* a step with an unknown action that, like a wait, won the game with the
\* YOU instance staying where it was
C18_Witness ==
    /\ IsStep /\ last.action \in Unknown
    /\ won /\ ~last.won0
    /\ \E p \in Pos : \E o \in last.grid0[p] :
         Holds(last.props0, o, "YOU") /\ o \in grid[p]

\* C21: when a move into a cell that holds several pushable instances
\* succeeds, every member of that push-set ends exactly one cell further in
\* the push direction: at the return of the attempt it is in the cell behind
\* the target, and it has neither stayed in the target cell nor gone to the
\* cell two behind it.
PushSet(a) == Pushable(a, a.to)

C21_PushSetOneCell ==
    IsStep =>
      \A n \in 1 .. Len(last.attempts) :
        LET a == last.attempts[n]
        IN  (a.ok /\ Cardinality(PushSet(a)) >= 2) =>
              \A o \in PushSet(a) :
                /\ o \in CellAt(a.after, Ahead(a, 2))
                /\ o # a.obj => o \notin a.after[a.to]
                /\ o \in CellAt(a.after, Ahead(a, 3)) => o \in CellAt(a.before, Ahead(a, 3))

\* C22: simultaneous-move semantics.  In a step with a directional action
\* d, every instance of every YOU type ends the move phase displaced by d or
\* not at all, never by 2d and never removed: per YOU type there are as many
\* instances after the move phase as before, every instance found after it
\* is in a cell that held one before or in the cell one step d behind such a
\* cell, and every cell that held one still holds one or the cell one step d
\* further does.
CellsOf(g, t) == {p \in Pos : t \in g[p]}

Back(p, d) == <<p[1] - d[1], p[2] - d[2]>>

C22_Simultaneous ==
    (IsStep /\ last.action \in Directions) =>
      \A t \in Types :
        Holds(last.props0, t, "YOU") =>
          LET d == Direction(last.action)
              B == CellsOf(last.grid0, t)
              A == CellsOf(last.moved, t)
          IN  /\ Cardinality(A) = Cardinality(B)
              /\ \A p \in A : p \in B \/ Back(p, d) \in B
              /\ \A p \in B : p \in A \/ Shift(p, d) \in A

\* C23: circular transformations swap types.  With both A IS B and B IS A
\* in force, the transformation phase of a step leaves a B in exactly the
\* cells that held an A before it and an A in exactly the cells that held a
\* B, also in the cells that held both.
C23_Swap ==
    IsStep =>
      \A a, b \in ObjectNames :
        (a # b /\ TransformsTo(upper(a), upper(b)) /\ TransformsTo(upper(b), upper(a))) =>
          \A p \in Pos :
            /\ (b \in last.transformed[p]) = (a \in last.moved[p])
            /\ (a \in last.transformed[p]) = (b \in last.moved[p])

\* C24: extract_rules returns the rules in scan order and never
\* deduplicates.  On a grid in which no cell holds two text instances, the
\* list has one entry per window that reads as a sentence, the entry of a
\* window is at the place the window has in the scan (all horizontal windows
\* in row-major order of their first cell, then all vertical windows in
\* row-major order), and two windows that spell the same rule give two equal
\* entries.
ScanKey(w) == (IF w[2] = <<1, 0>> THEN 0 ELSE W * H) + w[1][2] * W + w[1][1]

Sentences_in(g) == {w \in Windows : Reads(g, w) # {}}

\* the place of window w among the windows that read as a sentence
ScanRank(g, w) == Cardinality({v \in Sentences_in(g) : ScanKey(v) <= ScanKey(w)})

C24_ScanOrder ==
    LET g == RulesGrid
        rs == rule_manager.rules
    IN  (\A p \in Pos : Cardinality(g[p] \cap TextNames) <= 1) =>
          /\ Len(rs) = Cardinality(Sentences_in(g))
          /\ \A w \in Sentences_in(g) : rs[ScanRank(g, w)] \in Reads(g, w)

\* a sentence in row 1 and a different one written downwards from (3,0):
\* the rule of the row comes first
C24_Witness ==
    /\ last.op = "setup"
    /\ rule_manager.rules = <<<<"FLAG", "IS", "WIN">>, <<"BABA", "IS", "YOU">>>>
    /\ "flag_text" \in grid[<<0, 1>>]
    /\ "baba_text" \in grid[<<3, 0>>]

\* two sentences that spell the same rule: two equal entries
C24_WitnessTwice ==
    /\ last.op = "setup"
    /\ Len(rule_manager.rules) = 2
    /\ rule_manager.rules[1] = rule_manager.rules[2]

\* C25: instances are destroyed only by the sink phase.  The move phase
\* and the transformation phase of a step each leave the number of instances
\* on the grid as it was.
Instances(g) == UNION {{<<p, o>> : o \in g[p]} : p \in Pos}

C25_CountKept ==
    IsStep =>
      /\ Cardinality(Instances(last.moved)) = Cardinality(Instances(last.grid0))
      /\ Cardinality(Instances(last.transformed)) = Cardinality(Instances(last.moved))

\* C26: every live instance is held by exactly one cell.  After the move
\* phase of a step on a grid in which every instance was in one cell, no
\* instance object is held by two cells.
C26_OneCell ==
    (IsStep /\ steps = 1) =>
      \A h1, h2 \in HeldAfterMove : h1[3] = h2[3] => h1[1] = h2[1]

\* the holdings give the cells of the end of the move phase
ReplayAgrees ==
    IsStep => {<<h[1], h[2]>> : h \in HeldAfterMove} = Instances(last.moved)

\* C27: the rule tables are never stale when step returns.  After every
\* step the rule list and both tables are what extract_rules and update_rules
\* give from the cells as they are at the return, also when the sink phase
\* of the step has destroyed text instances.
C27_NeverStale ==
    IsStep =>
      \E pick \in TextPicks(grid) :
        LET rs == extract_rules(grid, pick)
        IN  /\ rule_manager.rules = rs
            /\ rule_manager.properties = compute_properties(rs)
            /\ rule_manager.transformations = compute_transformations(rs)

\* C28 as stated: won and lost are never both true, in every state reached
\* by step calls from a grid with won = lost = FALSE.
C28_NeverBoth == ~(won /\ lost)

\* C28 (amended): a step taken with won = lost = FALSE sets at most one of
\* the two flags; both are set only by a step taken after a flag was set.
C28_OneFlagPerStep ==
    (IsStep /\ ~last.won0 /\ ~last.lost0) => ~(won /\ lost)

C28_Witness ==
    /\ IsStep /\ ~last.won0 /\ ~last.lost0
    /\ lost /\ ~won
    /\ \E p \in Pos : \E o, q \in last.transformed[p] :
         o # q /\ Holds(rule_manager.properties, q, "WIN")

\* C29: won changes from FALSE to TRUE during a step only if, at the step's
\* win/lose check, some subject holds YOU and some cell holds an instance of
\* a YOU type together with an instance of a different type that holds WIN;
\* an instance alone in its cell, of a type that holds YOU and WIN, does not
\* set won.
C29_WinHasPair ==
    (IsStep /\ ~last.won0 /\ won) =>
      /\ \E i \in 1 .. Len(rule_manager.properties) :
           "YOU" \in rule_manager.properties[i].props
      /\ \E p \in Pos : \E a \in last.transformed[p] :
           /\ Holds(rule_manager.properties, a, "YOU")
           /\ \E b \in last.transformed[p] \ {a} :
                Holds(rule_manager.properties, b, "WIN")

\* a step that sets won with exactly one cell holding the pair, brought about by
\* the step itself (no pair when the step started)
C29_Witness ==
    /\ IsStep /\ ~last.won0 /\ won
    /\ Cardinality({p \in Pos : \E a, b \in last.transformed[p] :
                      PairAt(last.transformed, rule_manager.properties, p, a, b)}) = 1
    /\ ~SharesCell(last.grid0, last.props0)

\* a step under which an instance holds YOU and WIN alone in its cell, and
\* won stays FALSE
C29_WitnessLone ==
    /\ IsStep /\ ~last.won0 /\ ~won /\ ~lost
    /\ \E p \in Pos : \E a \in last.transformed[p] :
         /\ last.transformed[p] = {a}
         /\ Holds(rule_manager.properties, a, "YOU")
         /\ Holds(rule_manager.properties, a, "WIN")

\* the cells in front of p in direction d, up to the edge of the grid
ToEdge(p, d) ==
    Cardinality({k \in 1 .. MaxLine : InBounds(p[1] + k * d[1], p[2] + k * d[2])})

\* C30: every step call returns, for every action: step leaves a state from
\* every grid, the calls of _try_move nested below each call made by the
\* move phase are at most as deep as the number of cells between the mover
\* and the edge of the grid in the direction of the move, and the step
\* counter is one more than before the step.
C30_Terminates ==
    /\ (steps < MaxSteps /\ last.op # "none") =>
         \A action \in Actions :
           \E m \in move_phase(grid, rule_manager.properties, action) :
           \E pick \in TextPicks(m.grid) :
             apply_transformations(
               m.grid, update_rules(extract_rules(m.grid, pick)).transformations) # {}
    /\ IsStep =>
         /\ steps = last.steps0 + 1
         /\ \A i \in 1 .. Len(last.attempts) :
              LET a == last.attempts[i]
              IN  a.depth <= ToEdge(a.from, Shift(a.to, <<-a.from[1], -a.from[2]>>))

\* a push chain that reaches the edge: the nested calls are as deep as the
\* bound allows, the last of them pointing out of the grid
C30_Witness ==
    /\ IsStep /\ steps = last.steps0 + 1
    /\ \E i \in 1 .. Len(last.attempts) :
         LET a == last.attempts[i]
         IN  /\ ~a.ok
             /\ a.depth >= 2
             /\ a.depth = ToEdge(a.from, Shift(a.to, <<-a.from[1], -a.from[2]>>))

\* a push chain that moves: two nested calls below the mover's call
C30_WitnessMoved ==
    /\ IsStep
    /\ \E i \in 1 .. Len(last.attempts) :
         last.attempts[i].ok /\ last.attempts[i].depth >= 2

====
